---- MODULE Spec2Model ----
(***************************************************************************)
(* custom-evm-indexer: the ingestion route (api/indexer POST), the         *)
(* DatabaseService persistence layer and the GraphQL read resolvers.       *)
(*                                                                         *)
(*   Spec       one ingestion run of POST /api/indexer                     *)
(*   SpecStore  DatabaseService on the Contract and Event tables           *)
(*   SpecQuery  the read queries on tables DatabaseService has filled      *)
(*   SpecStatus DatabaseService.updateIndexingStatus                       *)
(*   SpecConc   concurrent storeEvents calls, one row insert per step      *)
(***************************************************************************)
EXTENDS Integers, Sequences, FiniteSets, Bags, TLC

VARIABLES
  \* ---- ingestion run (POST /api/indexer) ----
  pc,               \* position of the handler
  req,              \* the request body
  eventSignatures,  \* names matched by extractEventSignatures, ABI order
  fromBlockNum,     \* resolved range
  toBlockNum,
  eventIdx,         \* index of the event fetchLogsInBatches is running for
  currentFromBlock, \* loop variable of fetchLogsInBatches
  logs,             \* fetchLogsInBatches' local accumulator
  allLogs,          \* POST's accumulator over all events
  response,         \* the JSON response
  queried,          \* history: every getLogs call issued, in issue order:
                    \* event name, fromBlock, toBlock, index of the descriptor
  expected,         \* history: bag of the logs returned by successful calls
  anyOk,            \* history: some getLogs call of the run succeeded
  anyFailed,        \* history: some getLogs call of the run failed
  settled,          \* history: number of getLogs calls that have settled
  delaysSince,      \* history: delay steps since the last getLogs call
  gaps,             \* history: per getLogs call, the delay steps before it
  responses,        \* history: number of responses sent
  obj,              \* the value handed to serializeBigIntValues
  serializedResponse, \* the body handed to NextResponse.json
  \* ---- DatabaseService (Prisma tables) ----
  contractTable,    \* rows of "Contract"
  eventTable,       \* rows of "Event"
  last,             \* the last DatabaseService write call: what it returned,
                    \* and (history) what its batch met in the table
  qres,             \* the last read query and its result (none after a write)
  statusTable,      \* rows of "IndexingStatus"
  maxPassed,        \* history: per (contractAddress, network), the largest
                    \* height passed to updateIndexingStatus (0: none yet)
  \* ---- concurrent storeEvents calls ----
  calls             \* per call: position, records, next index, inserted count

runVars == <<pc, req, eventSignatures, fromBlockNum, toBlockNum, eventIdx,
             currentFromBlock, logs, allLogs, response, queried, expected,
             anyOk, anyFailed, settled, delaysSince, gaps, responses>>

storeVars == <<contractTable, eventTable, last, qres>>

statusVars == <<statusTable, maxPassed>>

wireVars == <<obj, serializedResponse>>

vars == <<runVars, storeVars, statusVars, calls, wireVars>>

Range(s) == {s[i] : i \in 1..Len(s)}

RECURSIVE SeqToBag(_)
SeqToBag(s) ==
  IF s = <<>> THEN EmptyBag ELSE SetToBag({Head(s)}) (+) SeqToBag(Tail(s))

(***************************************************************************)
(* The upstream chain: the logs the RPC endpoint holds, in chain order.    *)
(***************************************************************************)
ChainLogSeq ==
  << [blockNumber |-> 0,       logIndex |-> 0, transactionHash |-> "0xt1", name |-> "Approval"],
     [blockNumber |-> 0,       logIndex |-> 1, transactionHash |-> "0xt1", name |-> "Transfer"],
     [blockNumber |-> 499,     logIndex |-> 0, transactionHash |-> "0xt2", name |-> "Transfer"],
     [blockNumber |-> 500,     logIndex |-> 2, transactionHash |-> "0xt3", name |-> "Transfer"],
     [blockNumber |-> 500,     logIndex |-> 1, transactionHash |-> "0xt3", name |-> "Approval"],
     [blockNumber |-> 6700000, logIndex |-> 4, transactionHash |-> "0xt4", name |-> "Approval"],
     [blockNumber |-> 6700500, logIndex |-> 3, transactionHash |-> "0xt5", name |-> "Transfer"],
     [blockNumber |-> 6701000, logIndex |-> 0, transactionHash |-> "0xt6", name |-> "Transfer"] >>

\* client.getLogs({address, event, fromBlock, toBlock}) when it succeeds,
\* each log tagged with the event name (part_007:199-210)
GetLogs(name, from, to) ==
  LET hit(l) == l.name = name /\ from <= l.blockNumber /\ l.blockNumber <= to
      tag(l) == [blockNumber |-> l.blockNumber, logIndex |-> l.logIndex,
                 transactionHash |-> l.transactionHash, eventName |-> name]
      sel == SelectSeq(ChainLogSeq, hit)
  IN  [i \in 1..Len(sel) |-> tag(sel[i])]

(***************************************************************************)
(* Request inputs.                                                         *)
(***************************************************************************)
\* contractAddress texts: "" is a missing field, "0xZZ" is no address
AddressSamples == {"", "0xab", "0xZZ"}

\* contractABI texts: "" is a missing field, "notjson" does not parse, "TT"
\* declares the event Transfer twice (an overloaded event), "TB" declares
\* an event Approval with a struct parameter (JSON type "tuple"), which the
\* human-readable signature text cannot express
AbiSamples == {"", "notjson", "T", "TA", "TT", "TB"}

AbiParses(text) == text \in {"T", "TA", "TT", "TB"}

\* JSON.parse(contractABI); inputs are the entry's input types
ParseABI(text) ==
  CASE text = "T" ->
         << [type |-> "event", name |-> "Transfer", inputs |-> "address,uint256"] >>
    [] text = "TT" ->
         << [type |-> "event", name |-> "Transfer", inputs |-> "address,uint256"],
            [type |-> "function", name |-> "Approval", inputs |-> "address"],
            [type |-> "event", name |-> "Transfer", inputs |-> "address"] >>
    [] text = "TB" ->
         << [type |-> "event", name |-> "Approval", inputs |-> "tuple"],
            [type |-> "event", name |-> "Transfer", inputs |-> "address,uint256"] >>
    [] OTHER ->
         << [type |-> "function", name |-> "Approval", inputs |-> "address"],
            [type |-> "event", name |-> "Transfer", inputs |-> "address,uint256"],
            [type |-> "function", name |-> "transfer", inputs |-> "address"],
            [type |-> "event", name |-> "Approval", inputs |-> "address,uint256"] >>

EventsToTrackSamples ==
  {<<>>, <<"Transfer">>, <<"Approval">>, <<"Transfer", "Approval">>}

BlockSamples == {0, 499, 500, 999, 1000, 50000, 50001, 6700000, 6701000}

\* fromBlock / toBlock as sent: a decimal text, or the keyword
NumText(n) == [kind |-> "number", value |-> n]

Keyword(k) == [kind |-> k, value |-> 0]

\* Keyword("text") is a text BigInt() does not accept
FromBlockSamples ==
  {NumText(n) : n \in BlockSamples} \cup {Keyword("earliest"), Keyword("text")}

ToBlockSamples == {NumText(n) : n \in BlockSamples} \cup {Keyword("latest")}

\* the chain heads client.getBlockNumber() may report
HeadSamples == {1000, 6701000}

\* request bodies; hasEventsToTrack is FALSE when the body has no
\* eventsToTrack at all
Requests ==
  [contractAddress : AddressSamples, contractABI : AbiSamples,
   eventsToTrack : EventsToTrackSamples, hasEventsToTrack : {TRUE},
   fromBlock : FromBlockSamples, toBlock : ToBlockSamples]
  \cup
  [contractAddress : AddressSamples, contractABI : AbiSamples,
   eventsToTrack : {<<>>}, hasEventsToTrack : {FALSE},
   fromBlock : {Keyword("earliest")}, toBlock : {Keyword("latest")}]

NoRequest ==
  [contractAddress |-> "", contractABI |-> "", eventsToTrack |-> <<>>,
   hasEventsToTrack |-> TRUE,
   fromBlock |-> Keyword("earliest"), toBlock |-> Keyword("latest")]

(***************************************************************************)
(* POST /api/indexer                                                       *)
(***************************************************************************)
MAX_BLOCKS_PER_REQUEST == 500

MAX_TOTAL_RANGE == 50000

\* a plausible slip: the test of the entry's type left out
ExtractEventSignatures_AnyType(abi, eventsToTrack) ==
  LET keep(item) == item.name \in Range(eventsToTrack)
      events == SelectSeq(abi, keep)
  IN  [i \in 1..Len(events) |-> events[i].name]

\* extractEventSignatures: the ABI's event entries whose name is tracked
ExtractEventSignatures(abi, eventsToTrack) ==
  LET keep(item) == item.type = "event" /\ item.name \in Range(eventsToTrack)
      events == SelectSeq(abi, keep)
  IN  [i \in 1..Len(events) |-> events[i].name]

\* the entries extractEventSignatures keeps: the descriptors' signatures
MatchedEvents(abi, eventsToTrack) ==
  SelectSeq(abi, LAMBDA item :
                   item.type = "event" /\ item.name \in Range(eventsToTrack))

\* parseAbi throws on the signature text built from an entry whose input
\* type is "tuple", which is no Solidity type
ParseAbiThrows(signature) == signature.inputs = "tuple"

\* the first descriptor from index k on whose fetchLogsInBatches gets past
\* parseAbi (the event loop's catch skips the others); Len + 1 if none
RECURSIVE NextFetchable(_, _)
NextFetchable(signatures, k) ==
  IF k > Len(signatures) THEN k
  ELSE IF ParseAbiThrows(signatures[k]) THEN NextFetchable(signatures, k + 1)
  ELSE k

\* `!eventsToTrack.length` on a body without eventsToTrack throws
EventsToTrackThrows(r) ==
  r.contractAddress # "" /\ r.contractABI # "" /\ ~r.hasEventsToTrack

\* the validation of the required fields
MissingFields(r) ==
  r.contractAddress = "" \/ r.contractABI = "" \/ Len(r.eventsToTrack) = 0

\* totalBlockRange
\* a plausible slip: the distance between the two heights
TotalBlockRange_Abs(from, to) == IF to > from THEN to - from ELSE from - to

TotalBlockRange(from, to) == to - from

\* a plausible slip: the ceiling tested one block too far
RangeTooLarge_OffByOne(from, to) ==
  TotalBlockRange(from, to) > MAX_TOTAL_RANGE + 1

\* the "too large" test
RangeTooLarge(from, to) == TotalBlockRange(from, to) > MAX_TOTAL_RANGE

\* a plausible slip: the last batch not clamped to toBlock
BatchToBlock_NoClamp(cur, to) == cur + MAX_BLOCKS_PER_REQUEST - 1

\* the end of the batch that starts at cur
BatchToBlock(cur, to) ==
  LET currentToBlock == cur + MAX_BLOCKS_PER_REQUEST - 1
  IN  IF currentToBlock > to THEN to ELSE currentToBlock

\* a plausible slip: the next batch starts on the block the last one ended on
NextFromBlock_Overlap(batchToBlock) == batchToBlock

\* the start of the next batch
NextFromBlock(batchToBlock) == batchToBlock + 1

\* a plausible slip: a failed batch discards what the event gathered so far
LogsAfterFailure_Reset(acc) == <<>>

\* the catch of a failed batch: the accumulator is left as it is
LogsAfterFailure(acc) == acc

\* a plausible slip: ties on the block height left unordered
CompareLogs_NoTieBreak(a, b) == a.blockNumber - b.blockNumber

\* the comparator of allLogs.sort: Number() is exact for every height and
\* index below 2^53, which covers every value of this model
CompareLogs(a, b) ==
  LET blockDiff == a.blockNumber - b.blockNumber
  IN  IF blockDiff # 0 THEN blockDiff ELSE a.logIndex - b.logIndex

\* Array.prototype.sort with that comparator: a stable sort
RECURSIVE InsertSorted(_, _)
InsertSorted(s, x) ==
  IF s = <<>> THEN <<x>>
  ELSE IF CompareLogs(x, s[Len(s)]) >= 0 THEN Append(s, x)
  ELSE Append(InsertSorted(SubSeq(s, 1, Len(s) - 1), x), s[Len(s)])

RECURSIVE SortLogs(_)
SortLogs(s) ==
  IF s = <<>> THEN <<>>
  ELSE InsertSorted(SortLogs(SubSeq(s, 1, Len(s) - 1)), s[Len(s)])

NoResponse ==
  [success |-> FALSE, status |-> 0, error |-> "", events |-> <<>>,
   blockRange |-> <<0, 0>>, totalEvents |-> 0]

ErrorResponse(status, error) ==
  [success |-> FALSE, status |-> status, error |-> error, events |-> <<>>,
   blockRange |-> <<0, 0>>, totalEvents |-> 0]

\* the success response built after the sort
SuccessResponse(sorted, from, to) ==
  [success |-> TRUE, status |-> 200, error |-> "", events |-> sorted,
   blockRange |-> <<from, to>>, totalEvents |-> Len(sorted)]

(***************************************************************************)
(* serializeBigIntValues: JavaScript values as trees.                      *)
(***************************************************************************)
JsNull == [kind |-> "null"]

JsUndefined == [kind |-> "undefined"]

JsBigInt(n) == [kind |-> "bigint", big |-> n]

JsNumber(n) == [kind |-> "number", num |-> n]

JsString(text) == [kind |-> "string", str |-> text]

JsBoolean(b) == [kind |-> "boolean", bool |-> b]

JsArray(items) == [kind |-> "array", items |-> items]

\* entries: the sequence of [key, value] in Object.entries order
JsObject(entries) == [kind |-> "object", entries |-> entries]

Digit(d) == <<"0", "1", "2", "3", "4", "5", "6", "7", "8", "9">>[d + 1]

\* BigInt.prototype.toString(): the decimal digits, "-" before a negative
RECURSIVE BigIntToString(_)
BigIntToString(n) ==
  IF n < 0 THEN "-" \o BigIntToString(0 - n)
  ELSE IF n < 10 THEN Digit(n)
  ELSE BigIntToString(n \div 10) \o Digit(n % 10)

\* a plausible slip: only a top-level bigint is converted
SerializeBigIntValues_TopOnly(v) ==
  IF v.kind = "bigint" THEN JsString(BigIntToString(v.big)) ELSE v

RECURSIVE SerializeBigIntValues(_)
SerializeBigIntValues(v) ==
  IF v.kind \in {"null", "undefined"} THEN v
  ELSE IF v.kind = "bigint" THEN JsString(BigIntToString(v.big))
  ELSE IF v.kind = "array"
  THEN JsArray([i \in 1..Len(v.items) |-> SerializeBigIntValues(v.items[i])])
  ELSE IF v.kind = "object"
  THEN JsObject([i \in 1..Len(v.entries) |->
                   [key |-> v.entries[i].key,
                    value |-> SerializeBigIntValues(v.entries[i].value)]])
  ELSE v

\* one log as viem returns it, tagged with its event name
LogValue(l) ==
  JsObject(<< [key |-> "blockNumber", value |-> JsBigInt(l.blockNumber)],
              [key |-> "logIndex", value |-> JsNumber(l.logIndex)],
              [key |-> "transactionHash", value |-> JsString(l.transactionHash)],
              [key |-> "eventName", value |-> JsString(l.eventName)] >>)

\* the response object of a successful run
ResponseValue(r, contractAddress, eventsToTrack) ==
  JsObject(<<
    [key |-> "success", value |-> JsBoolean(TRUE)],
    [key |-> "events",
     value |-> JsArray([i \in 1..Len(r.events) |-> LogValue(r.events[i])])],
    [key |-> "metadata",
     value |-> JsObject(<<
       [key |-> "contractAddress", value |-> JsString(contractAddress)],
       [key |-> "eventsTracked",
        value |-> JsArray([i \in 1..Len(eventsToTrack) |->
                             JsString(eventsToTrack[i])])],
       [key |-> "network", value |-> JsString("sepolia")],
       [key |-> "blockRange",
        value |-> JsObject(<<
          [key |-> "from", value |-> JsString(BigIntToString(r.blockRange[1]))],
          [key |-> "to", value |-> JsString(BigIntToString(r.blockRange[2]))] >>)],
       [key |-> "totalEvents", value |-> JsNumber(r.totalEvents)] >>)] >>)

\* the body of a failure response
ErrorBody(r) ==
  JsObject(<< [key |-> "success", value |-> JsBoolean(FALSE)],
              [key |-> "error", value |-> JsString(r.error)] >>)

\* values handed to serializeBigIntValues: scalars, then arrays and objects
\* of them, then one more level of nesting
ScalarSamples ==
  {JsNull, JsUndefined, JsBigInt(0), JsBigInt(0 - 12), JsBigInt(6701000),
   JsNumber(7), JsString("7"), JsString("a"), JsBoolean(TRUE)}

FlatSamples ==
  ScalarSamples
  \cup {JsArray(<<>>), JsObject(<<>>)}
  \cup {JsArray(<<a>>) : a \in ScalarSamples}
  \cup {JsArray(<<a, b>>) :
          a \in {JsBigInt(6701000), JsNumber(7)}, b \in {JsBigInt(0), JsNull}}
  \cup {JsObject(<< [key |-> "blockNumber", value |-> a] >>) : a \in ScalarSamples}

NestedSamples ==
  {JsArray(<<v>>) : v \in FlatSamples}
  \cup {JsObject(<< [key |-> "logIndex", value |-> a],
                    [key |-> "args", value |-> v] >>) :
          a \in {JsBigInt(3), JsNumber(3)}, v \in FlatSamples}

ResponseSamples ==
  {ResponseValue(SuccessResponse(logSeq, 0, 6701000), "0xab", <<"Transfer">>) :
     logSeq \in {<<>>, GetLogs("Transfer", 0, 499), GetLogs("Transfer", 500, 6701000)}}

ValueSamples == FlatSamples \cup NestedSamples \cup ResponseSamples

InitRun ==
  /\ pc = "idle"
  /\ req = NoRequest
  /\ eventSignatures = <<>>
  /\ fromBlockNum = 0
  /\ toBlockNum = 0
  /\ eventIdx = 0
  /\ currentFromBlock = 0
  /\ logs = <<>>
  /\ allLogs = <<>>
  /\ response = NoResponse
  /\ queried = <<>>
  /\ expected = EmptyBag
  /\ anyOk = FALSE
  /\ anyFailed = FALSE
  /\ settled = 0
  /\ delaysSince = 0
  /\ gaps = <<>>
  /\ responses = 0
  /\ obj = JsUndefined
  /\ serializedResponse = JsUndefined

\* NextResponse.json: a success response goes through serializeBigIntValues
Respond(r) ==
  /\ pc' = "responded"
  /\ response' = r
  /\ responses' = responses + 1
  /\ IF r.success
     THEN /\ obj' = ResponseValue(r, req.contractAddress, req.eventsToTrack)
          /\ serializedResponse' = SerializeBigIntValues(obj')
     ELSE /\ UNCHANGED obj
          /\ serializedResponse' = ErrorBody(r)

\* serializeBigIntValues applied to a value
Serialize ==
  /\ pc = "serialize"
  /\ serializedResponse' = SerializeBigIntValues(obj)
  /\ pc' = "serialized"
  /\ UNCHANGED <<obj, req, eventSignatures, fromBlockNum, toBlockNum, eventIdx,
                 currentFromBlock, logs, allLogs, response, queried, expected,
                 anyOk, anyFailed, settled, delaysSince, gaps, responses>>
  /\ UNCHANGED <<storeVars, statusVars, calls>>

\* serializeBigIntValues applied to its own result
SerializeAgain ==
  /\ pc = "serialized"
  /\ obj' = serializedResponse
  /\ serializedResponse' = SerializeBigIntValues(serializedResponse)
  /\ pc' = "reserialized"
  /\ UNCHANGED <<req, eventSignatures, fromBlockNum, toBlockNum, eventIdx,
                 currentFromBlock, logs, allLogs, response, queried, expected,
                 anyOk, anyFailed, settled, delaysSince, gaps, responses>>
  /\ UNCHANGED <<storeVars, statusVars, calls>>

\* the request is read and validated, the ABI parsed, the events extracted
Receive ==
  /\ pc = "idle"
  /\ UNCHANGED <<storeVars, statusVars, calls>>
  /\ \E r \in Requests :
       /\ req' = r
       /\ IF EventsToTrackThrows(r)
          THEN /\ Respond(ErrorResponse(500, "Exception"))
               /\ UNCHANGED eventSignatures
          ELSE IF MissingFields(r)
          THEN /\ Respond(ErrorResponse(400, "MissingFields"))
               /\ UNCHANGED eventSignatures
          ELSE IF ~AbiParses(r.contractABI)
          THEN /\ Respond(ErrorResponse(400, "InvalidABI"))
               /\ UNCHANGED eventSignatures
          ELSE LET sigs == ExtractEventSignatures(ParseABI(r.contractABI),
                                                  r.eventsToTrack)
               IN  /\ eventSignatures' = sigs
                   /\ IF Len(sigs) = 0
                      THEN Respond(ErrorResponse(400, "NoMatchingEvents"))
                      ELSE /\ pc' = "head"
                           /\ UNCHANGED <<response, responses, wireVars>>
  /\ UNCHANGED <<fromBlockNum, toBlockNum, eventIdx, currentFromBlock, logs,
                 allLogs, queried, expected, anyOk, anyFailed, settled,
                 delaysSince, gaps>>

\* the end of the event loop: sort, build the response, serialize, answer
Finish(all, from, to) ==
  LET sorted == SortLogs(all)
  IN  /\ allLogs' = sorted
      /\ Respond(SuccessResponse(sorted, from, to))

\* the signatures of the run's descriptors
Signatures == MatchedEvents(ParseABI(req.contractABI), req.eventsToTrack)

\* what follows the await of one getLogs call that left the local
\* accumulator newLogs: advance, then delay, or return to the event loop
AfterBatch(newLogs, batchToBlock) ==
  LET next == NextFromBlock(batchToBlock)
      nextEvent == NextFetchable(Signatures, eventIdx + 1)
  IN  IF next <= toBlockNum
      THEN /\ currentFromBlock' = next
           /\ logs' = newLogs
           /\ pc' = "delay"
           /\ UNCHANGED <<eventIdx, allLogs, response, responses, wireVars>>
      ELSE /\ logs' = <<>>
           /\ IF nextEvent <= Len(eventSignatures)
              THEN /\ eventIdx' = nextEvent
                   /\ currentFromBlock' = fromBlockNum
                   /\ allLogs' = allLogs \o newLogs
                   /\ pc' = "query"
                   /\ UNCHANGED <<response, responses, wireVars>>
              ELSE /\ UNCHANGED eventIdx
                   /\ currentFromBlock' = next
                   /\ Finish(allLogs \o newLogs, fromBlockNum, toBlockNum)

\* client.getBlockNumber() answers; the range is resolved and checked
HeadOk ==
  /\ pc = "head"
  /\ UNCHANGED <<storeVars, statusVars, calls>>
  /\ \E currentBlock \in HeadSamples :
       LET from == IF req.fromBlock.kind = "earliest" THEN 0
                   ELSE req.fromBlock.value
           to == IF req.toBlock.kind = "latest" THEN currentBlock
                 ELSE req.toBlock.value
           first == NextFetchable(Signatures, 1)
       IN  IF req.fromBlock.kind = "text"
           THEN \* BigInt(fromBlock) throws: caught at the boundary
                /\ Respond(ErrorResponse(500, "Exception"))
                /\ UNCHANGED <<fromBlockNum, toBlockNum, eventIdx,
                               currentFromBlock, allLogs>>
           ELSE /\ fromBlockNum' = from
                /\ toBlockNum' = to
                /\ IF RangeTooLarge(from, to)
                   THEN /\ Respond(ErrorResponse(400, "RangeTooLarge"))
                        /\ UNCHANGED <<eventIdx, currentFromBlock, allLogs>>
                   ELSE IF from <= to /\ first <= Len(eventSignatures)
                   THEN /\ eventIdx' = first
                        /\ currentFromBlock' = from
                        /\ pc' = "query"
                        /\ UNCHANGED <<response, responses, allLogs, wireVars>>
                   ELSE \* no loop body runs for any event
                        /\ eventIdx' = Len(eventSignatures)
                        /\ currentFromBlock' = from
                        /\ Finish(<<>>, from, to)
  /\ UNCHANGED <<req, eventSignatures, logs, queried, expected, anyOk, anyFailed,
                 settled, delaysSince, gaps>>

\* client.getBlockNumber() throws: caught at the boundary
HeadFail ==
  /\ pc = "head"
  /\ UNCHANGED <<storeVars, statusVars, calls>>
  /\ Respond(ErrorResponse(500, "Exception"))
  /\ UNCHANGED <<req, eventSignatures, fromBlockNum, toBlockNum, eventIdx,
                 currentFromBlock, logs, allLogs, queried, expected, anyOk,
                 anyFailed, settled, delaysSince, gaps>>

\* a plausible slip: getLogs not awaited, the loop going on at once
AfterIssue_NoAwait == "query"

\* `await client.getLogs(...)`: the handler waits for the call to settle
AfterIssue == "await"

\* one getLogs call is issued
IssueQuery ==
  /\ pc = "query"
  /\ UNCHANGED <<storeVars, statusVars, calls>>
  /\ LET name == eventSignatures[eventIdx]
         batchToBlock == BatchToBlock(currentFromBlock, toBlockNum)
     IN  queried' = Append(queried, <<name, currentFromBlock, batchToBlock, eventIdx>>)
  /\ gaps' = Append(gaps, delaysSince)
  /\ delaysSince' = 0
  /\ pc' = AfterIssue
  /\ UNCHANGED <<req, eventSignatures, fromBlockNum, toBlockNum, eventIdx,
                 currentFromBlock, logs, allLogs, response, expected, anyOk,
                 anyFailed, settled, responses, wireVars>>

\* the getLogs call succeeds
QueryOk ==
  /\ pc = "await"
  /\ UNCHANGED <<storeVars, statusVars, calls>>
  /\ LET name == eventSignatures[eventIdx]
         batchToBlock == BatchToBlock(currentFromBlock, toBlockNum)
         batchLogs == GetLogs(name, currentFromBlock, batchToBlock)
     IN  /\ expected' = expected (+) SeqToBag(batchLogs)
         /\ anyOk' = TRUE
         /\ settled' = settled + 1
         /\ AfterBatch(logs \o batchLogs, batchToBlock)
  /\ UNCHANGED <<req, eventSignatures, fromBlockNum, toBlockNum, anyFailed,
                 queried, delaysSince, gaps>>

\* the getLogs call throws: logged, the loop goes on
QueryFail ==
  /\ pc = "await"
  /\ UNCHANGED <<storeVars, statusVars, calls>>
  /\ LET batchToBlock == BatchToBlock(currentFromBlock, toBlockNum)
     IN  /\ anyFailed' = TRUE
         /\ settled' = settled + 1
         /\ AfterBatch(LogsAfterFailure(logs), batchToBlock)
  /\ UNCHANGED <<req, eventSignatures, fromBlockNum, toBlockNum, expected, anyOk,
                 queried, delaysSince, gaps>>

\* the 100 ms pause between two batches
Delay ==
  /\ pc = "delay"
  /\ UNCHANGED <<storeVars, statusVars, calls>>
  /\ pc' = "query"
  /\ delaysSince' = delaysSince + 1
  /\ UNCHANGED <<req, eventSignatures, fromBlockNum, toBlockNum, eventIdx,
                 currentFromBlock, logs, allLogs, response, queried, expected,
                 anyOk, anyFailed, settled, gaps, responses, wireVars>>

(***************************************************************************)
(* DatabaseService: the Contract and Event tables.                         *)
(***************************************************************************)
\* String.prototype.toLowerCase, on addresses written as character sequences
LowerChar(c) ==
  CASE c = "A" -> "a"
    [] c = "B" -> "b"
    [] c = "C" -> "c"
    [] c = "D" -> "d"
    [] OTHER -> c

ToLowerCase(str) == [i \in DOMAIN str |-> LowerChar(str[i])]

\* addresses callers pass: two spellings of one address
StoreAddressSamples == {<<"a", "b">>, <<"A", "b">>}

Networks == {"sepolia", "mainnet"}

NameSamples == {"Test"}

\* batches passed to storeEvents hold at most MaxBatch records
MaxBatch == 2

Undefined == Keyword("undefined")

\* viem logs as handed to storeEvents; "" is a missing (falsy) text field
RawEventSamples ==
  { [blockNumber |-> NumText(5), transactionHash |-> "0xt1",
     logIndex |-> NumText(0), address |-> <<"A", "b">>,
     eventName |-> "Transfer", data |-> "0x01"],
    [blockNumber |-> NumText(7), transactionHash |-> "0xt1",
     logIndex |-> Undefined, address |-> <<"a", "b">>,
     eventName |-> "", data |-> "0x02"],
    [blockNumber |-> Undefined, transactionHash |-> "0xt2",
     logIndex |-> NumText(1), address |-> <<"A", "b">>,
     eventName |-> "Approval", data |-> "0x03"],
    [blockNumber |-> Keyword("text"), transactionHash |-> "0xt3",
     logIndex |-> NumText(0), address |-> <<"c", "d">>,
     eventName |-> "Transfer", data |-> "0x04"] }

RECURSIVE SeqsUpTo(_, _)
SeqsUpTo(S, n) ==
  IF n = 0 THEN {<<>>}
  ELSE LET shorter == SeqsUpTo(S, n - 1)
       IN  shorter \cup {Append(b, e) : b \in shorter, e \in S}

BatchSamples == SeqsUpTo(RawEventSamples, MaxBatch)

\* `x || 0` followed by BigInt(String(.)) / Number(.)
OrZero(x) == IF x.kind = "number" THEN x.value ELSE 0

\* BigInt(String(event.blockNumber || 0)) throws on a text that is no integer
RecordThrows(event) == event.blockNumber.kind = "text"

\* the record storeEvents builds from one event
EventRecord(event, contractId, network) ==
  [blockNumber |-> OrZero(event.blockNumber),
   transactionHash |-> event.transactionHash,
   logIndex |-> OrZero(event.logIndex),
   contractId |-> contractId,
   contractAddress |-> ToLowerCase(event.address),
   eventName |-> IF event.eventName = "" THEN "Unknown" ELSE event.eventName,
   data |-> event.data,
   network |-> network]

\* a plausible slip: createMany without skipDuplicates
SkipDuplicates_Off == FALSE

\* createMany's option
SkipDuplicates == TRUE

\* a plausible slip: the block height made part of the unique index
SameEventKey_WithBlock(a, b) ==
  /\ a.transactionHash = b.transactionHash
  /\ a.logIndex = b.logIndex
  /\ a.blockNumber = b.blockNumber

\* the unique index Event_transactionHash_logIndex_key
SameEventKey(a, b) ==
  a.transactionHash = b.transactionHash /\ a.logIndex = b.logIndex

\* a plausible slip: an upsert, the stored row overwritten by the record
OnConflict_Overwrite(stored, record) == record

\* what a conflicting insert leaves in the table: the stored row
OnConflict(stored, record) == stored

\* a stored row: the record and the generated id
WithId(record, id) ==
  [id |-> id, blockNumber |-> record.blockNumber,
   transactionHash |-> record.transactionHash, logIndex |-> record.logIndex,
   contractId |-> record.contractId,
   contractAddress |-> record.contractAddress,
   eventName |-> record.eventName, data |-> record.data,
   network |-> record.network]

\* one row of an INSERT ... ON CONFLICT DO NOTHING:
\* the table after it, whether a row was inserted, whether it failed
InsertRow(table, record) ==
  LET clash == {row \in table : SameEventKey(row, record)}
  IN  IF clash = {}
      THEN [table |-> table \cup {WithId(record, Cardinality(table) + 1)},
            inserted |-> 1, failed |-> FALSE]
      ELSE IF SkipDuplicates
      THEN [table |-> (table \ clash) \cup
                      {OnConflict(row, WithId(record, row.id)) : row \in clash},
            inserted |-> 0, failed |-> FALSE]
      ELSE [table |-> table, inserted |-> 0, failed |-> TRUE]

\* the foreign key Event_contractId_fkey, tested for the rows inserted
ForeignKeyHolds(contracts, contractId) ==
  \E c \in contracts : c.id = contractId

\* prisma.event.createMany({data, skipDuplicates: true}): one statement,
\* all of its rows or none
RECURSIVE InsertRows(_, _)
InsertRows(table, records) ==
  IF records = <<>> THEN [table |-> table, count |-> 0, failed |-> FALSE]
  ELSE LET before == InsertRows(table, SubSeq(records, 1, Len(records) - 1))
           row == InsertRow(before.table, records[Len(records)])
       IN  [table |-> row.table, count |-> before.count + row.inserted,
            failed |-> before.failed \/ row.failed]

CreateMany(contracts, table, records) ==
  LET done == InsertRows(table, records)
      fkBroken == done.count > 0 /\ ~ForeignKeyHolds(contracts, records[1].contractId)
  IN  IF done.failed \/ fkBroken
      THEN [table |-> table, count |-> 0, threw |-> TRUE]
      ELSE [table |-> done.table, count |-> done.count, threw |-> FALSE]

\* DatabaseService.storeEvents as a function of the tables
StoreEventsResult(contracts, table, batch, contractId, network) ==
  IF \E i \in 1..Len(batch) : RecordThrows(batch[i])
  THEN [table |-> table, count |-> 0, threw |-> TRUE]
  ELSE CreateMany(contracts, table,
                  [i \in 1..Len(batch) |-> EventRecord(batch[i], contractId, network)])

\* the address createOrUpdateContract looks up and writes
ContractKey(address) == address

\* prisma.contract.upsert({where: {address}, update, create})
UpsertContract(contracts, address, network, name) ==
  LET key == ContractKey(address)
      found == {c \in contracts : c.address = key}
  IN  IF found = {}
      THEN contracts \cup
             {[id |-> Cardinality(contracts) + 1, address |-> key,
               network |-> network, name |-> name]}
      ELSE (contracts \ found) \cup
             {[id |-> c.id, address |-> c.address, network |-> network,
               name |-> name] : c \in found}

NoCall == [op |-> "none", count |-> 0, threw |-> FALSE, repeated |-> FALSE,
           clobber |-> FALSE]

\* history: every record of the batch has its key in the table already
AllStored(table, records) ==
  /\ records # <<>>
  /\ \A i \in 1..Len(records) : \E row \in table : SameEventKey(row, records[i])

\* history: a record of the batch has the key of a stored row and differs
\* from that row in another field
MeetsDifferentRow(table, records) ==
  \E i \in 1..Len(records) : \E row \in table :
    /\ SameEventKey(row, records[i])
    /\ WithId(records[i], row.id) # row

NoQuery == [op |-> "none"]

InitStore ==
  /\ contractTable = {}
  /\ eventTable = {}
  /\ last = NoCall
  /\ qres = NoQuery

createOrUpdateContract ==
  \E address \in StoreAddressSamples, network \in Networks, name \in NameSamples :
    /\ contractTable' = UpsertContract(contractTable, address, network, name)
    /\ last' = [op |-> "createOrUpdateContract", count |-> 0,
                threw |-> FALSE, repeated |-> FALSE, clobber |-> FALSE]
    /\ qres' = NoQuery
    /\ UNCHANGED eventTable
    /\ UNCHANGED <<runVars, statusVars, calls, wireVars>>

storeEvents ==
  \E batch \in BatchSamples, network \in Networks,
     contractId \in {0} \cup {c.id : c \in contractTable} :
    LET r == StoreEventsResult(contractTable, eventTable, batch, contractId, network)
        records == [i \in 1..Len(batch) |-> EventRecord(batch[i], contractId, network)]
    IN  /\ eventTable' = r.table
        /\ last' = [op |-> "storeEvents", count |-> r.count, threw |-> r.threw,
                    repeated |-> AllStored(eventTable, records),
                    clobber |-> MeetsDifferentRow(eventTable, records)]
        /\ qres' = NoQuery
        /\ UNCHANGED contractTable
        /\ UNCHANGED <<runVars, statusVars, calls, wireVars>>

(***************************************************************************)
(* The read side: DatabaseService queries behind the GraphQL resolvers.    *)
(* The read side keeps no state between requests: a behaviour is one       *)
(* request, followed by requests for the next page of the same query.      *)
(***************************************************************************)
\* addresses callers query by: two spellings of one address, and another
QueryAddressSamples == {<<"a", "b">>, <<"A", "b">>, <<"c", "d">>}

\* eventName arguments: "" is an omitted argument
QueryEventNameSamples == {"", "Transfer"}

\* network arguments of getEventsSmartRange: getNetworkConfig knows the
\* members of Networks only
SmartNetworkSamples == Networks \cup {"goerli"}

\* answers of client.getBlockNumber() to getLatestBlockNumber; Undefined is
\* an RPC error
SmartHeadSamples == {NumText(500), NumText(1000), NumText(6701000), Undefined}

\* fromBlock / toBlock filters; Undefined is an omitted filter
BlockFilterSamples == {Undefined, NumText(0), NumText(2000)}

\* pagination.page and pagination.limit are 0 (omitted or 0) .. MaxPage / MaxLimit
MaxPage == 3

MaxLimit == 2

\* the resolvers' default page size
DEFAULT_LIMIT == 50

\* the default `limit` of searchEvents and DatabaseService.getEventsByContract
DEFAULT_TAKE == 100

\* the window of getEventsSmartRange is toBlock - 999 .. toBlock
SMART_RANGE_BACK == 999

\* the fallback toBlock of getEventsSmartRange
FALLBACK_BLOCK == 23000000

\* the arguments of a read request; <<>>, "", Undefined and 0 are omitted ones
QueryArgs(address, network, eventName, fromBlock, toBlock, page, limit, head) ==
  [address |-> address, network |-> network, eventName |-> eventName,
   fromBlock |-> fromBlock, toBlock |-> toBlock, page |-> page, limit |-> limit,
   head |-> head]

\* `args.pagination?.page || 1`
PageOf(a) == IF a.page = 0 THEN 1 ELSE a.page

\* `args.pagination?.limit || 50`
LimitOf(a) == IF a.limit = 0 THEN DEFAULT_LIMIT ELSE a.limit

\* `(page - 1) * limit`
OffsetOf(a) == (PageOf(a) - 1) * LimitOf(a)

\* a plausible slip: Math.floor for Math.ceil
CeilDiv_Floor(n, l) == n \div l

\* Math.ceil(totalCount / limit), limit >= 1
CeilDiv(n, l) == IF n % l = 0 THEN n \div l ELSE (n \div l) + 1

\* the address a resolver hands to DatabaseService
ResolverAddress(op, address) ==
  IF op = "getEventsByContract" THEN ToLowerCase(address) ELSE address

\* a bigint in a condition: undefined and 0n are falsy
Truthy(b) == b.kind = "number" /\ b.value # 0

\* a Prisma where clause on Event; <<>>, "" and Undefined are absent conditions
EventMatches(row, where) ==
  /\ where.contractAddress # <<>> => row.contractAddress = where.contractAddress
  /\ where.network # "" => row.network = where.network
  /\ where.eventName # "" => row.eventName = where.eventName
  /\ where.gte.kind = "number" => row.blockNumber >= where.gte.value
  /\ where.lte.kind = "number" => row.blockNumber <= where.lte.value

EventWhere(address, network, eventName, gte, lte) ==
  [contractAddress |-> address, network |-> network, eventName |-> eventName,
   gte |-> gte, lte |-> lte]

\* getEventsWithPagination: the filters are texts, and every non-empty text
\* ("0" too) is a condition
WhereWithPagination(a) ==
  EventWhere(a.address, a.network, a.eventName, a.fromBlock, a.toBlock)

\* DatabaseService.getEventsByContract: `if (fromBlock)`, `if (toBlock)` on
\* bigints
WhereByContract(contractAddress, a) ==
  EventWhere(contractAddress, a.network, a.eventName,
             IF Truthy(a.fromBlock) THEN a.fromBlock ELSE Undefined,
             IF Truthy(a.toBlock) THEN a.toBlock ELSE Undefined)

\* searchEvents: two spreads that both write the key blockNumber, the later
\* one replacing the earlier
WhereSearch(a) ==
  EventWhere(a.address, a.network, a.eventName,
             IF Truthy(a.fromBlock) /\ ~Truthy(a.toBlock) THEN a.fromBlock
             ELSE Undefined,
             IF Truthy(a.toBlock) THEN a.toBlock ELSE Undefined)

\* prisma.event.count({where})
CountEvents(table, where) ==
  Cardinality({row \in table : EventMatches(row, where)})

\* row a may come before row b under orderBy blockNumber desc
\* (byLogIndex: then logIndex desc)
MayPrecede(a, b, byLogIndex) ==
  \/ a.blockNumber > b.blockNumber
  \/ /\ a.blockNumber = b.blockNumber
     /\ byLogIndex => a.logIndex >= b.logIndex

\* a plausible slip: findMany without orderBy, the rows in any order
RECURSIVE OrderedDesc_Unordered(_, _)
OrderedDesc_Unordered(rows, byLogIndex) ==
  IF rows = {} THEN {<<>>}
  ELSE UNION {{<<first>> \o rest :
                 rest \in OrderedDesc_Unordered(rows \ {first}, byLogIndex)} :
              first \in rows}

\* findMany's orderings; rows the ordering does not separate come in any order
RECURSIVE OrderedDesc(_, _)
OrderedDesc(rows, byLogIndex) ==
  IF rows = {} THEN {<<>>}
  ELSE UNION {{<<first>> \o rest :
                 rest \in OrderedDesc(rows \ {first}, byLogIndex)} :
              first \in {r \in rows :
                           \A other \in rows : MayPrecede(r, other, byLogIndex)}}

\* skip / take
Page(s, offset, limit) ==
  IF offset >= Len(s) THEN <<>>
  ELSE SubSeq(s, offset + 1, IF offset + limit > Len(s) THEN Len(s) ELSE offset + limit)

\* a plausible slip: the oldest stored block for the newest
LatestEventBlock_Oldest(table, where) ==
  LET rows == {row \in table : EventMatches(row, where)}
  IN  IF rows = {} THEN Undefined
      ELSE NumText(CHOOSE b \in {row.blockNumber : row \in rows} :
                     \A row \in rows : row.blockNumber >= b)

\* the newest stored block of the selector of getEventsSmartRange
LatestEventBlock(table, where) ==
  LET rows == {row \in table : EventMatches(row, where)}
  IN  IF rows = {} THEN Undefined
      ELSE NumText(CHOOSE b \in {row.blockNumber : row \in rows} :
                     \A row \in rows : row.blockNumber <= b)

\* a plausible slip: getNetworkConfig with a default chain
GetLatestBlockNumber_AnyNetwork(network, rpc) == rpc

\* BlockchainService.getLatestBlockNumber: getNetworkConfig throws on a
\* network it does not know, getBlockNumber on an RPC error (Undefined)
GetLatestBlockNumber(network, rpc) ==
  IF network \in Networks THEN rpc ELSE Undefined

\* a plausible slip: the default window whatever the chain head
ColdStartToBlock_Default(fetched) == FALLBACK_BLOCK

\* toBlock when no event is stored for the selector
ColdStartToBlock(fetched) ==
  IF fetched.kind = "number" THEN fetched.value ELSE FALLBACK_BLOCK

\* a plausible slip: the window's start left negative
WindowFrom_Unclamped(toBlock) == toBlock - SMART_RANGE_BACK

\* fromBlock = toBlock - 999, not below 0
WindowFrom(toBlock) ==
  IF toBlock - SMART_RANGE_BACK < 0 THEN 0 ELSE toBlock - SMART_RANGE_BACK

\* the window of getEventsSmartRange; fetched is the answer of
\* BlockchainService.getLatestBlockNumber, Undefined when it throws
SmartRange(latest, fetched) ==
  LET toBlock == IF latest.kind = "number" THEN latest.value
                 ELSE ColdStartToBlock(fetched)
  IN  [fromBlock |-> WindowFrom(toBlock),
       toBlock |-> toBlock,
       latestEventBlock |-> latest,
       totalEventsInRange |-> 0,
       isOptimalRange |-> latest.kind = "number",
       message |-> IF latest.kind = "number" THEN "Found events"
                   ELSE IF fetched.kind = "number" THEN "No events found"
                   ELSE "Unable to fetch latest block"]

\* a plausible slip: the latest event looked up without the eventName
BaseWhere_AnyEvent(op, a) ==
  EventWhere(ResolverAddress(op, a.address), a.network, "", Undefined, Undefined)

\* the selector of getEventsSmartRange
BaseWhere(op, a) ==
  EventWhere(ResolverAddress(op, a.address), a.network, a.eventName,
             Undefined, Undefined)

\* the rangeInfo getEventsSmartRange computes
RangeInfo(op, table, a) ==
  SmartRange(LatestEventBlock(table, BaseWhere(op, a)),
             GetLatestBlockNumber(a.network, a.head))

\* the where clause of the page query of an Event query
PageWhere(op, table, a) ==
  CASE op = "getEvents" -> WhereWithPagination(a)
    [] op = "getEventsByContract" ->
         WhereByContract(ResolverAddress(op, a.address),
                         [a EXCEPT !.fromBlock = Undefined, !.toBlock = Undefined])
    [] op = "DatabaseService_getEventsByContract" ->
         WhereByContract(a.address, a)
    [] op = "searchEvents" -> WhereSearch(a)
    [] op = "getEventsSmartRange" ->
         LET range == RangeInfo(op, table, a)
         IN  EventWhere(ResolverAddress(op, a.address), a.network, a.eventName,
                        NumText(range.fromBlock), NumText(range.toBlock))

\* the rows an Event query matches
ResultRows(op, table, a) ==
  {row \in table : EventMatches(row, PageWhere(op, table, a))}

NoRange ==
  [fromBlock |-> 0, toBlock |-> 0, latestEventBlock |-> Undefined,
   totalEventsInRange |-> 0, isOptimalRange |-> FALSE, message |-> ""]

\* what a read request answers: the page of rows, the count and the
\* pagination fields the resolver derives from it
QueryResult(op, a, s, take, skip, found) ==
  LET totalCount == Len(s)
      totalPages == CeilDiv(totalCount, take)
  IN  [op |-> op, address |-> a.address, network |-> a.network,
       eventName |-> a.eventName, fromBlock |-> a.fromBlock,
       toBlock |-> a.toBlock, page |-> a.page, limit |-> a.limit,
       head |-> a.head,
       events |-> Page(s, skip, take),
       totalCount |-> totalCount,
       totalPages |-> totalPages,
       currentPage |-> PageOf(a),
       hasNextPage |-> PageOf(a) < totalPages,
       hasPreviousPage |-> PageOf(a) > 1,
       found |-> found,
       headFetched |-> FALSE,
       rangeInfo |-> NoRange]

\* the arguments a request may carry: any of the samples when it follows no
\* other request, the next page of the last query (up to MaxPage) otherwise
RequestArgs(op, samples) ==
  IF qres = NoQuery THEN samples
  ELSE IF qres.op = op /\ qres.page >= 1 /\ qres.page < MaxPage
       THEN {QueryArgs(qres.address, qres.network, qres.eventName, qres.fromBlock,
                       qres.toBlock, qres.page + 1, qres.limit, qres.head)}
       ELSE {}

\* a resolver over Event: getEvents, getEventsByContract, getEventsSmartRange
QueryEvents(op, a) ==
  LET rows == ResultRows(op, eventTable, a)
  IN  \E s \in OrderedDesc(rows, op = "getEventsSmartRange") :
        qres' = [QueryResult(op, a, s, LimitOf(a), OffsetOf(a), rows # {})
                   EXCEPT !.headFetched =
                            /\ op = "getEventsSmartRange"
                            /\ LatestEventBlock(eventTable, BaseWhere(op, a)).kind
                                 # "number",
                          !.rangeInfo =
                            IF op = "getEventsSmartRange"
                            THEN [RangeInfo(op, eventTable, a)
                                    EXCEPT !.totalEventsInRange = Len(s)]
                            ELSE NoRange]

\* getEvents requests: every combination of filters with the pagination
\* omitted, and every pagination with the block filters omitted
GetEventsArgs ==
  LET addresses == {<<>>, <<"a", "b">>, <<"A", "b">>}
      networks == {"", "sepolia"}
  IN  {QueryArgs(address, network, eventName, fromBlock, toBlock, 0, 0, Undefined) :
         address \in addresses, network \in networks,
         eventName \in QueryEventNameSamples,
         fromBlock \in BlockFilterSamples, toBlock \in BlockFilterSamples}
      \cup
      {QueryArgs(address, network, eventName, Undefined, Undefined, page, limit,
                 Undefined) :
         address \in addresses, network \in networks,
         eventName \in QueryEventNameSamples,
         page \in 0..MaxPage, limit \in 0..MaxLimit}

getEvents ==
  /\ \E a \in RequestArgs("getEvents", GetEventsArgs) : QueryEvents("getEvents", a)
  /\ UNCHANGED <<contractTable, eventTable, last>>
  /\ UNCHANGED <<runVars, statusVars, calls, wireVars>>

GetEventsByContractArgs ==
  {QueryArgs(address, network, eventName, Undefined, Undefined, page, limit,
             Undefined) :
     address \in QueryAddressSamples, network \in Networks,
     eventName \in QueryEventNameSamples,
     page \in 0..MaxPage, limit \in 0..MaxLimit}

getEventsByContract ==
  /\ \E a \in RequestArgs("getEventsByContract", GetEventsByContractArgs) :
       QueryEvents("getEventsByContract", a)
  /\ UNCHANGED <<contractTable, eventTable, last>>
  /\ UNCHANGED <<runVars, statusVars, calls, wireVars>>

\* getEventsSmartRange requests: every selector and chain answer with the
\* pagination omitted, and every pagination for the known networks
GetEventsSmartRangeArgs ==
  {QueryArgs(address, network, eventName, Undefined, Undefined, 0, 0, head) :
     address \in QueryAddressSamples, network \in SmartNetworkSamples,
     eventName \in QueryEventNameSamples, head \in SmartHeadSamples}
  \cup
  {QueryArgs(address, network, eventName, Undefined, Undefined, page, limit,
             NumText(1000)) :
     address \in QueryAddressSamples, network \in Networks,
     eventName \in QueryEventNameSamples,
     page \in 0..MaxPage, limit \in 0..MaxLimit}

getEventsSmartRange ==
  /\ \E a \in RequestArgs("getEventsSmartRange", GetEventsSmartRangeArgs) :
       QueryEvents("getEventsSmartRange", a)
  /\ UNCHANGED <<contractTable, eventTable, last>>
  /\ UNCHANGED <<runVars, statusVars, calls, wireVars>>

\* DatabaseService.searchEvents and DatabaseService.getEventsByContract called
\* with block bounds, limit and offset left to their defaults (100, 0)
QueryService(op) ==
  /\ qres = NoQuery
  /\ \E address \in {<<"a", "b">>}, network \in {"", "sepolia"},
        eventName \in QueryEventNameSamples,
        fromBlock \in BlockFilterSamples, toBlock \in BlockFilterSamples :
       LET a == QueryArgs(address, network, eventName, fromBlock, toBlock,
                          0, 0, Undefined)
           rows == ResultRows(op, eventTable, a)
       IN  \E s \in OrderedDesc(rows, FALSE) :
             qres' = QueryResult(op, a, s, DEFAULT_TAKE, 0, rows # {})

searchEvents ==
  /\ QueryService("searchEvents")
  /\ UNCHANGED <<contractTable, eventTable, last>>
  /\ UNCHANGED <<runVars, statusVars, calls, wireVars>>

DatabaseService_getEventsByContract ==
  /\ QueryService("DatabaseService_getEventsByContract")
  /\ UNCHANGED <<contractTable, eventTable, last>>
  /\ UNCHANGED <<runVars, statusVars, calls, wireVars>>

\* prisma.contract.findFirst({where: {address, network}})
FindContract(contracts, address, network) ==
  {c \in contracts : c.address = address /\ c.network = network}

getContract ==
  /\ qres = NoQuery
  /\ \E address \in QueryAddressSamples, network \in Networks :
       qres' = QueryResult("getContract",
                           QueryArgs(address, network, "", Undefined, Undefined,
                                     0, 0, Undefined),
                           <<>>, DEFAULT_LIMIT, 0,
                           FindContract(contractTable, address, network) # {})
  /\ UNCHANGED <<contractTable, eventTable, last>>
  /\ UNCHANGED <<runVars, statusVars, calls, wireVars>>

(***************************************************************************)
(* DatabaseService.updateIndexingStatus: the IndexingStatus table.         *)
(***************************************************************************)
\* heights passed as lastIndexedBlock are 1..MaxHeight
MaxHeight == 3

StatusPairs == StoreAddressSamples \X Networks

\* the upsert creating a second row where one exists
UpsertStatus_AlwaysCreate(table, contractAddress, network, lastIndexedBlock) ==
  table \cup {[id |-> Cardinality(table) + 1,
                contractAddress |-> contractAddress, network |-> network,
                lastIndexedBlock |-> lastIndexedBlock,
                errorCount |-> 0, lastError |-> ""]}

\* prisma.indexingStatus.upsert({where: {contractAddress_network}, ...}):
\* create leaves errorCount and lastError to the column defaults (0, NULL:
\* ""), update sets them; the row's id is generated at creation
UpsertStatus(table, contractAddress, network, lastIndexedBlock) ==
  LET found == {row \in table : /\ row.contractAddress = contractAddress
                                /\ row.network = network}
  IN  IF found = {}
      THEN table \cup {[id |-> Cardinality(table) + 1,
                        contractAddress |-> contractAddress, network |-> network,
                        lastIndexedBlock |-> lastIndexedBlock,
                        errorCount |-> 0, lastError |-> ""]}
      ELSE (table \ found) \cup
             {[id |-> row.id,
               contractAddress |-> row.contractAddress, network |-> row.network,
               lastIndexedBlock |-> lastIndexedBlock,
               errorCount |-> 0, lastError |-> ""] : row \in found}

InitStatus ==
  /\ statusTable = {}
  /\ maxPassed = [pair \in StatusPairs |-> 0]

updateIndexingStatus ==
  /\ \E contractAddress \in StoreAddressSamples, network \in Networks,
        lastIndexedBlock \in 1..MaxHeight :
       LET pair == <<contractAddress, network>>
       IN  /\ statusTable' = UpsertStatus(statusTable, contractAddress, network,
                                          lastIndexedBlock)
           /\ maxPassed' = [maxPassed EXCEPT ![pair] =
                              IF lastIndexedBlock > @ THEN lastIndexedBlock ELSE @]
  /\ UNCHANGED <<runVars, storeVars, calls, wireVars>>

(***************************************************************************)
(* Concurrent storeEvents calls on one Event table.  createMany is one     *)
(* INSERT ... ON CONFLICT DO NOTHING; the rows of concurrent statements    *)
(* reach the unique index one at a time, in any interleaving.              *)
(***************************************************************************)
\* the number of concurrent storeEvents calls
NumCalls == 2

CallIds == 1..NumCalls

\* the batches of the concurrent calls: records storeEvents accepts, none
\* twice in one batch
ConcurrentBatches ==
  {b \in BatchSamples :
     /\ b # <<>>
     /\ \A i \in 1..Len(b) : ~RecordThrows(b[i])
     /\ \A i, j \in 1..Len(b) : i # j => b[i] # b[j]}

\* the one Contract row the concurrent calls index for
ConcurrentContract ==
  UpsertContract({}, <<"a", "b">>, "sepolia", "Test")

IdleCall == [pc |-> "idle", records |-> <<>>, idx |-> 1, count |-> 0]

InitCalls == calls = [c \in CallIds |-> IdleCall]

\* a call maps its events to records and hands them to createMany
BeginStoreEvents(c) ==
  /\ calls[c].pc = "idle"
  /\ \E batch \in ConcurrentBatches :
       calls' = [calls EXCEPT ![c] =
                   [pc |-> "inserting",
                    records |-> [i \in 1..Len(batch) |->
                                   EventRecord(batch[i], 1, "sepolia")],
                    idx |-> 1, count |-> 0]]
  /\ UNCHANGED <<runVars, contractTable, eventTable, last, qres, statusVars, wireVars>>

\* the next row of a call's statement reaches the unique index
InsertNextRow(c) ==
  /\ calls[c].pc = "inserting"
  /\ calls[c].idx <= Len(calls[c].records)
  /\ LET r == InsertRow(eventTable, calls[c].records[calls[c].idx])
     IN  IF r.failed
         THEN /\ calls' = [calls EXCEPT ![c].pc = "failed"]
              /\ UNCHANGED eventTable
         ELSE /\ eventTable' = r.table
              /\ calls' = [calls EXCEPT ![c].idx = @ + 1,
                                        ![c].count = @ + r.inserted]
  /\ UNCHANGED <<runVars, contractTable, last, qres, statusVars, wireVars>>

\* createMany resolves with the number of rows inserted
ReturnStoreEvents(c) ==
  /\ calls[c].pc = "inserting"
  /\ calls[c].idx > Len(calls[c].records)
  /\ calls' = [calls EXCEPT ![c].pc = "returned"]
  /\ UNCHANGED <<runVars, contractTable, eventTable, last, qres, statusVars, wireVars>>

(***************************************************************************)
(* Specifications.                                                         *)
(***************************************************************************)
Init == InitRun /\ InitStore /\ InitStatus /\ InitCalls

\* the events the read side finds stored: logs of one contract as storeEvents
\* receives them from a run (heights 5, 0, 2000, 2000, 2004)
StoredEventSamples ==
  << [blockNumber |-> NumText(5), transactionHash |-> "0xt1",
      logIndex |-> NumText(0), address |-> <<"A", "b">>,
      eventName |-> "Transfer", data |-> "0x01"],
     [blockNumber |-> Undefined, transactionHash |-> "0xt2",
      logIndex |-> NumText(1), address |-> <<"A", "b">>,
      eventName |-> "Approval", data |-> "0x03"],
     [blockNumber |-> NumText(2000), transactionHash |-> "0xt4",
      logIndex |-> NumText(0), address |-> <<"a", "b">>,
      eventName |-> "Transfer", data |-> "0x05"],
     [blockNumber |-> NumText(2000), transactionHash |-> "0xt4",
      logIndex |-> NumText(1), address |-> <<"a", "b">>,
      eventName |-> "Transfer", data |-> "0x06"],
     [blockNumber |-> NumText(2004), transactionHash |-> "0xt5",
      logIndex |-> NumText(0), address |-> <<"a", "b">>,
      eventName |-> "Approval", data |-> "0x07"] >>

\* the batches of the runs that filled the store: stretches of the samples
StoredBatches ==
  {SubSeq(StoredEventSamples, i, j) :
     i \in 1..Len(StoredEventSamples), j \in 0..Len(StoredEventSamples)}

\* one log stored for the mainnet deployment of the contract
MainnetBatches ==
  {<<>>, << [blockNumber |-> NumText(2000), transactionHash |-> "0xt6",
             logIndex |-> NumText(0), address |-> <<"a", "b">>,
             eventName |-> "Transfer", data |-> "0x08"] >>}

\* the tables the read side starts from: what one createOrUpdateContract
\* call and two storeEvents calls leave
InitQuery ==
  /\ InitRun
  /\ InitStatus
  /\ InitCalls
  /\ last = NoCall
  /\ qres = NoQuery
  /\ \E address \in StoreAddressSamples :
       contractTable = UpsertContract({}, address, "sepolia", "Test")
  /\ \E b1 \in StoredBatches, b2 \in MainnetBatches :
       eventTable =
         StoreEventsResult(contractTable,
                           StoreEventsResult(contractTable, {}, b1, 1,
                                             "sepolia").table,
                           b2, 1, "mainnet").table

InitConc ==
  /\ InitRun
  /\ InitStatus
  /\ InitCalls
  /\ contractTable = ConcurrentContract
  /\ eventTable = {}
  /\ last = NoCall
  /\ qres = NoQuery

Next ==
  Receive \/ HeadOk \/ HeadFail \/ IssueQuery \/ QueryOk \/ QueryFail \/ Delay

Spec == Init /\ [][Next]_vars

NextStore == createOrUpdateContract \/ storeEvents

SpecStore == Init /\ [][NextStore]_vars

NextQuery ==
  \/ getEvents
  \/ getEventsByContract
  \/ getEventsSmartRange
  \/ getContract
  \/ searchEvents
  \/ DatabaseService_getEventsByContract

SpecQuery == InitQuery /\ [][NextQuery]_vars

NextStatus == updateIndexingStatus

SpecStatus == Init /\ [][NextStatus]_vars

NextConc ==
  \E c \in CallIds :
    BeginStoreEvents(c) \/ InsertNextRow(c) \/ ReturnStoreEvents(c)

SpecConc == InitConc /\ [][NextConc]_vars

\* serializeBigIntValues on its own
InitWire ==
  /\ pc = "serialize"
  /\ req = NoRequest
  /\ eventSignatures = <<>>
  /\ fromBlockNum = 0
  /\ toBlockNum = 0
  /\ eventIdx = 0
  /\ currentFromBlock = 0
  /\ logs = <<>>
  /\ allLogs = <<>>
  /\ response = NoResponse
  /\ queried = <<>>
  /\ expected = EmptyBag
  /\ anyOk = FALSE
  /\ anyFailed = FALSE
  /\ settled = 0
  /\ delaysSince = 0
  /\ gaps = <<>>
  /\ responses = 0
  /\ obj \in ValueSamples
  /\ serializedResponse = JsUndefined
  /\ InitStore
  /\ InitStatus
  /\ InitCalls

NextWire == Serialize \/ SerializeAgain

SpecWire == InitWire /\ [][NextWire]_vars

(***************************************************************************)
(* Properties of the ingestion run (checked under Spec).                   *)
(***************************************************************************)
\* the getLogs calls issued for one event, in issue order
QueriesOf(k) == SelectSeq(queried, LAMBDA q : q[4] = k)

\* the range has been resolved and tested
RangeResolved ==
  \/ pc \in {"query", "await", "delay"}
  \/ pc = "responded" /\ (response.success \/ response.error = "RangeTooLarge")

RunSucceeded == pc = "responded" /\ response.success

\* the k-th descriptor of the run is one parseAbi accepts
Fetchable(k) == ~ParseAbiThrows(Signatures[k])

C2_SpanOver50000BlocksRejected ==
  RangeResolved =>
    /\ (toBlockNum - fromBlockNum + 1 > 50000) =>
         (queried = <<>> /\ pc = "responded" /\ ~response.success)
    /\ Len(queried) > 0 => toBlockNum - fromBlockNum + 1 <= 50000

\* C2 amended: a request with toBlock - fromBlock > 50,000 is rejected with
\* success=false before any query is issued; a run that issues a query has
\* toBlock - fromBlock <= 50,000, that is, covers at most 50,001 blocks.
C2_DifferenceOver50000Rejected ==
  RangeResolved =>
    /\ (toBlockNum - fromBlockNum > 50000) =>
         /\ queried = <<>>
         /\ pc = "responded"
         /\ ~response.success
         /\ response.error = "RangeTooLarge"
    /\ Len(queried) > 0 => toBlockNum - fromBlockNum + 1 <= 50001

C2_Witness ==
  /\ pc = "responded"
  /\ response.error = "RangeTooLarge"
  /\ toBlockNum - fromBlockNum = 50001
  /\ queried = <<>>

\* C3: a failing getLogs call never aborts the run: what was gathered is kept
\* while the run goes on, and a run that issued queries answers success=true
\* with exactly the logs of the calls that succeeded, totalEvents being their
\* number; when every call failed it answers success with zero events.
C3_FailedChunkNeverAborts ==
  /\ pc \in {"query", "await", "delay"} => SeqToBag(allLogs \o logs) = expected
  /\ (pc = "responded" /\ Len(queried) > 0) =>
       /\ response.success
       /\ SeqToBag(response.events) = expected
       /\ response.totalEvents = Len(response.events)
       /\ ~anyOk => (response.events = <<>> /\ response.totalEvents = 0)

C3_Witness ==
  /\ pc = "responded"
  /\ anyFailed
  /\ anyOk
  /\ Len(queried) >= 4
  /\ Len(response.events) = 2
  /\ queried[Len(queried)][1] = "Approval"
  /\ \E i \in 1..Len(response.events) : response.events[i].eventName = "Transfer"

\* C7: the sequence a run returns is sorted ascending by block height, ties
\* broken by ascending log index, and holds exactly the gathered records
\* (none dropped, none duplicated).
C7_ReturnedEventsSorted ==
  RunSucceeded =>
    /\ \A i \in 1..(Len(response.events) - 1) :
         LET a == response.events[i]
             b == response.events[i + 1]
         IN  \/ a.blockNumber < b.blockNumber
             \/ a.blockNumber = b.blockNumber /\ a.logIndex <= b.logIndex
    /\ SeqToBag(response.events) = expected
    /\ Len(response.events) = BagCardinality(expected)

\* the sort had work to do: an Approval log, gathered after every Transfer
\* log, is returned before a Transfer log of the same block
C7_Witness ==
  /\ RunSucceeded
  /\ eventSignatures = <<"Transfer", "Approval">>
  /\ \E i \in 1..(Len(response.events) - 1) :
       /\ response.events[i].eventName = "Approval"
       /\ response.events[i + 1].eventName = "Transfer"
       /\ response.events[i].blockNumber = response.events[i + 1].blockNumber

\* the request of the run has passed the field validation and JSON.parse
RequestParsed ==
  /\ req # NoRequest
  /\ ~MissingFields(req)
  /\ AbiParses(req.contractABI)

\* the run has failed before any upstream call because no event matched
FailedNoMatch ==
  /\ pc = "responded"
  /\ ~response.success
  /\ response.error = "NoMatchingEvents"
  /\ queried = <<>>

\* C19 as stated: with an interface holding only the event Transfer and
\* eventsToTrack = [Transfer, Approval], the run fails fast: success=false
\* with the error that names the requested events, and no log query.
C19_AbsentTrackedEventFailsFast ==
  (/\ RequestParsed
   /\ req.contractABI = "T"
   /\ req.eventsToTrack = <<"Transfer", "Approval">>) => FailedNoMatch

\* the indices of the interface's event entries whose name is tracked
MatchingEntries ==
  LET abi == ParseABI(req.contractABI)
  IN  {i \in 1..Len(abi) :
         abi[i].type = "event" /\ abi[i].name \in Range(req.eventsToTrack)}

\* C20 as stated: the descriptors are exactly one per tracked name that
\* matches an event entry, and the run fails before any upstream call if and
\* only if no tracked name matches.
C20_OneDescriptorPerTrackedName ==
  RequestParsed =>
    LET abi == ParseABI(req.contractABI)
    IN  /\ \A k, l \in 1..Len(eventSignatures) :
             eventSignatures[k] = eventSignatures[l] => k = l
        /\ Range(eventSignatures) = {abi[i].name : i \in MatchingEntries}
        /\ FailedNoMatch <=> MatchingEntries = {}

\* C20, amended: the descriptors are one per event entry of the interface
\* whose name is tracked, in interface order (two entries that share a
\* tracked name give two descriptors; entries of other types and untracked
\* events give none), and the run fails before any upstream call if and only
\* if no entry matches.
C20_OneDescriptorPerMatchingEntry ==
  RequestParsed =>
    LET abi == ParseABI(req.contractABI)
    IN  /\ Len(eventSignatures) = Cardinality(MatchingEntries)
        /\ \E pos \in [1..Len(eventSignatures) -> MatchingEntries] :
             /\ \A k, l \in 1..Len(eventSignatures) : k < l => pos[k] < pos[l]
             /\ \A k \in 1..Len(eventSignatures) :
                  eventSignatures[k] = abi[pos[k]].name
        /\ FailedNoMatch <=> MatchingEntries = {}
        /\ MatchingEntries = {} => ~response.success /\ pc = "responded"

\* an interface with functions and events of which one event is tracked and
\* a function of a tracked name is not taken; the run has gone on to query
C20_Witness ==
  /\ RequestParsed
  /\ req.contractABI = "TA"
  /\ req.eventsToTrack = <<"Approval">>
  /\ eventSignatures = <<"Approval">>
  /\ Len(queried) > 0

\* the request of the run is one the validation is said to reject
InvalidRequest ==
  /\ pc # "idle"
  /\ \/ req.contractAddress \in {"", "0xZZ"}
     \/ ~AbiParses(req.contractABI)
     \/ req.hasEventsToTrack /\ Len(req.eventsToTrack) = 0

\* C21 as stated: a request with a missing or malformed contractAddress, an
\* unparsable contractABI or an empty eventsToTrack list is answered
\* success=false by the validation, before any work: no chain-head call, no
\* log query, nothing written.
C21_InvalidRequestRejectedBeforeWork ==
  InvalidRequest =>
    /\ pc = "responded"
    /\ ~response.success
    /\ response.status = 400
    /\ queried = <<>>
    /\ contractTable = {} /\ eventTable = {} /\ statusTable = {}

\* some descriptor of the run made parseAbi throw inside the event loop
ParseAbiFailed ==
  /\ RangeResolved
  /\ ~(pc = "responded" /\ response.error = "RangeTooLarge")
  /\ \E k \in 1..Len(eventSignatures) : ~Fetchable(k)

\* C22 as stated: a run ends with exactly one response, success with events
\* and metadata or failure with a message, and a failure outside the
\* per-chunk handler (a non-numeric fromBlock, a missing eventsToTrack, and
\* any other throw outside the getLogs try block) is reported as
\* success=false, never as success.
C22_FailuresReportedAtBoundary ==
  /\ responses = (IF pc = "responded" THEN 1 ELSE 0)
  /\ pc = "responded" =>
       /\ response.success => response.error = "" /\ response.status = 200
       /\ ~response.success => response.error # "" /\ response.events = <<>>
       /\ (req.fromBlock.kind = "text" \/ EventsToTrackThrows(req)) =>
            ~response.success
       /\ ParseAbiFailed => ~response.success

\* C24: log queries are strictly sequential: at most one is in flight (issued
\* and not yet settled) at any time, so each has succeeded or failed before
\* the next is issued; the queries of one event are issued in strictly
\* ascending fromBlock order; and the events are queried one after the other,
\* no query of an earlier event following one of a later event.
C24_QueriesStrictlySequential ==
  /\ Len(queried) - settled = (IF pc = "await" THEN 1 ELSE 0)
  /\ \A k \in 1..Len(eventSignatures) :
       LET qs == QueriesOf(k)
       IN  \A i \in 1..(Len(qs) - 1) : qs[i][2] < qs[i + 1][2]
  /\ \A i \in 1..(Len(queried) - 1) : queried[i][4] <= queried[i + 1][4]

\* the first query of the second event is in flight after the three queries
\* of the first event have settled, one of them by failing
C24_Witness ==
  /\ pc = "await"
  /\ anyFailed
  /\ anyOk
  /\ Len(queried) = 4
  /\ settled = 3
  /\ queried[3][4] = 1
  /\ queried[4][4] = 2

\* C25 as stated: between any two consecutive log queries of a run the delay
\* step occurs exactly once, whether the earlier one succeeded or failed, and
\* no delay follows the final query of the run.
C25_DelayBetweenAnyTwoQueries ==
  /\ \A i \in 1..Len(gaps) : gaps[i] = (IF i = 1 THEN 0 ELSE 1)
  /\ pc = "responded" => delaysSince = 0

\* what the code does: the delay separates consecutive queries of one event
DelayWithinOneEvent ==
  /\ \A i \in 1..Len(gaps) :
       gaps[i] = (IF i > 1 /\ queried[i - 1][4] = queried[i][4] THEN 1 ELSE 0)
  /\ pc = "responded" => delaysSince = 0

\* C26 as stated, its persistence part: a run that returns success has
\* passed through Persisting, so the events it returns are rows of the Event
\* table, written by a storeEvents call of the run.
C26_SuccessfulRunPersisted ==
  (RunSucceeded /\ response.events # <<>>) =>
    /\ last.op = "storeEvents"
    /\ \A i \in 1..Len(response.events) :
         \E row \in eventTable :
           /\ row.transactionHash = response.events[i].transactionHash
           /\ row.eventName = response.events[i].eventName

\* Math.ceil(a / b) for an integer a and b > 0
CeilQuotient(a, b) == 0 - ((0 - a) \div b)

\* the run is past the range check
PassedRangeCheck ==
  RangeResolved /\ ~(pc = "responded" /\ response.error = "RangeTooLarge")

\* no chunk of one event is queried twice
ChunksQueriedOnce(qs) ==
  Cardinality({<<qs[i][2], qs[i][3]>> : i \in 1..Len(qs)}) = Len(qs)

\* the number of queries the loop issues for the k-th descriptor
QueriesExpected(k) ==
  IF Fetchable(k) /\ fromBlockNum <= toBlockNum
  THEN CeilQuotient(toBlockNum - fromBlockNum + 1, 500)
  ELSE 0

RECURSIVE QueriesOfLaterEvents(_)
QueriesOfLaterEvents(k) ==
  IF k >= Len(eventSignatures) THEN 0
  ELSE QueriesExpected(k + 1) + QueriesOfLaterEvents(k + 1)

\* the steps a run has left: three per query to come (issue, settle, delay
\* or return to the event loop)
StepsLeft(p, cur, k) ==
  LET chunks == IF cur > toBlockNum THEN 0
                ELSE CeilQuotient(toBlockNum - cur + 1, 500)
      queries == chunks + QueriesOfLaterEvents(k)
  IN  CASE p = "query" -> 3 * queries
        [] p = "await" -> 3 * queries - 1
        [] p = "delay" -> 3 * queries + 1
        [] OTHER -> 0

\* every step of a run past the range check leaves fewer steps to take
RunAdvances ==
  (PassedRangeCheck /\ pc # "responded") =>
    /\ StepsLeft(pc, currentFromBlock, eventIdx) > 0
    /\ StepsLeft(pc', currentFromBlock', eventIdx')
         < StepsLeft(pc, currentFromBlock, eventIdx)

\* C27 as stated: a run that passes the range check terminates, and for each
\* matched event it issues exactly ceil((toBlock - fromBlock + 1) / 500) log
\* queries, each chunk once, which is at most 101.
C27_CeilQueriesPerMatchedEvent ==
  /\ [](PassedRangeCheck =>
          \A k \in 1..Len(eventSignatures) :
            LET qs == QueriesOf(k)
            IN  /\ Len(qs) <= 101
                /\ ChunksQueriedOnce(qs)
                /\ RunSucceeded =>
                     Len(qs) = CeilQuotient(toBlockNum - fromBlockNum + 1, 500))
  /\ [][RunAdvances]_vars

\* C27 amended: a run that passes the range check terminates, whatever
\* subset of its queries fails (every step leaves fewer steps to take, at
\* most three per query); for each matched event whose signature parseAbi
\* accepts it issues exactly max(0, ceil((toBlock - fromBlock + 1) / 500))
\* log queries (none when fromBlock > toBlock), each chunk exactly once and
\* a failed chunk never again, at most 101 per event; for a matched event
\* whose signature parseAbi rejects it issues none.
C27_QueriesPerEventBounded ==
  /\ [](PassedRangeCheck =>
          \A k \in 1..Len(eventSignatures) :
            LET qs == QueriesOf(k)
            IN  /\ Len(qs) <= QueriesExpected(k)
                /\ QueriesExpected(k) <= 101
                /\ ChunksQueriedOnce(qs)
                /\ RunSucceeded => Len(qs) = QueriesExpected(k))
  /\ [][RunAdvances]_vars

\* a run over 50,001 blocks has ended after 101 queries for each of its two
\* events, some of them failed
C27_Witness ==
  /\ RunSucceeded
  /\ toBlockNum - fromBlockNum = 50000
  /\ Len(eventSignatures) = 2
  /\ Len(QueriesOf(1)) = 101
  /\ Len(QueriesOf(2)) = 101
  /\ anyFailed

\* C28: a request whose resolved fromBlock is greater than its resolved
\* toBlock is not rejected: the run issues no log query and answers
\* success=true with zero events, blockRange reporting from > to.
C28_InvertedRangeSucceedsEmpty ==
  fromBlockNum > toBlockNum =>
    /\ RunSucceeded
    /\ queried = <<>>
    /\ response.events = <<>>
    /\ response.totalEvents = 0
    /\ response.blockRange = <<fromBlockNum, toBlockNum>>
    /\ serializedResponse.entries[2].value = JsArray(<<>>)
    /\ serializedResponse.entries[3].value.entries[4].value =
         JsObject(<< [key |-> "from", value |-> JsString(BigIntToString(fromBlockNum))],
                     [key |-> "to", value |-> JsString(BigIntToString(toBlockNum))] >>)

\* fromBlock above the chain head with toBlock = 'latest'
C28_Witness ==
  /\ RunSucceeded
  /\ req.fromBlock = NumText(6701000)
  /\ req.toBlock = Keyword("latest")
  /\ toBlockNum = 1000
  /\ response.blockRange = <<6701000, 1000>>
  /\ queried = <<>>

(***************************************************************************)
(* Properties of serializeBigIntValues (checked under SpecWire).           *)
(***************************************************************************)
IsDigit(c) == \E d \in 0..9 : Digit(d) = c

DigitValue(c) == CHOOSE d \in 0..9 : Digit(d) = c

\* the number a text of decimal digits denotes
RECURSIVE ParseDigits(_)
ParseDigits(text) ==
  IF Len(text) = 1 THEN DigitValue(text)
  ELSE 10 * ParseDigits(SubSeq(text, 1, Len(text) - 1))
       + DigitValue(SubSeq(text, Len(text), Len(text)))

\* text is the decimal numeral of the natural number n, no leading zero
IsNumeralOf(text, n) ==
  /\ Len(text) >= 1
  /\ \A i \in 1..Len(text) : IsDigit(SubSeq(text, i, i))
  /\ Len(text) > 1 => SubSeq(text, 1, 1) # "0"
  /\ ParseDigits(text) = n

IsDecimalOf(text, n) ==
  IF n < 0
  THEN /\ Len(text) >= 2
       /\ SubSeq(text, 1, 1) = "-"
       /\ IsNumeralOf(SubSeq(text, 2, Len(text)), 0 - n)
  ELSE IsNumeralOf(text, n)

\* w is v with every bigint, at any depth, replaced by its decimal string
\* and nothing else changed
RECURSIVE WireImage(_, _)
WireImage(v, w) ==
  IF v.kind = "bigint"
  THEN w.kind = "string" /\ IsDecimalOf(w.str, v.big)
  ELSE IF v.kind = "array"
  THEN /\ w.kind = "array"
       /\ Len(w.items) = Len(v.items)
       /\ \A i \in 1..Len(v.items) : WireImage(v.items[i], w.items[i])
  ELSE IF v.kind = "object"
  THEN /\ w.kind = "object"
       /\ Len(w.entries) = Len(v.entries)
       /\ \A i \in 1..Len(v.entries) :
            /\ w.entries[i].key = v.entries[i].key
            /\ WireImage(v.entries[i].value, w.entries[i].value)
  ELSE w = v

\* the values of kind bigint inside v
RECURSIVE BigIntsIn(_)
BigIntsIn(v) ==
  IF v.kind = "bigint" THEN {v.big}
  ELSE IF v.kind = "array"
  THEN UNION {BigIntsIn(v.items[i]) : i \in 1..Len(v.items)}
  ELSE IF v.kind = "object"
  THEN UNION {BigIntsIn(v.entries[i].value) : i \in 1..Len(v.entries)}
  ELSE {}

\* C23: the serialized value is the value handed in with every bigint, at
\* any nesting depth, replaced by its decimal string and nothing else
\* changed (same arrays, same keys in the same order, same other values);
\* it holds no bigint, and serializing it again returns it unchanged.
C23_WireRule ==
  /\ (pc \in {"serialized", "reserialized"} \/ RunSucceeded) =>
       /\ WireImage(obj, serializedResponse)
       /\ BigIntsIn(serializedResponse) = {}
       /\ SerializeBigIntValues(serializedResponse) = serializedResponse
  /\ pc = "reserialized" => serializedResponse = obj

\* a response with events: the bigint heights nested in it became strings
C23_Witness ==
  /\ pc = "reserialized"
  /\ obj \in {SerializeBigIntValues(v) : v \in ResponseSamples}
  /\ obj \notin ResponseSamples
  /\ Len(obj.entries[2].value.items) >= 2
  /\ obj.entries[2].value.items[1].entries[1].value = JsString("500")

(***************************************************************************)
(* Properties of the Contract and Event tables (checked under SpecStore).  *)
(***************************************************************************)
ContractIdSamples == {0} \cup {c.id : c \in contractTable}

\* C4: storeEvents called a second time with the same batch leaves the set
\* (and number) of Event rows of the first call and reports 0 inserted rows;
\* a call whose records all have a stored (transactionHash, logIndex) inserts
\* nothing.
C4_StoreEventsIdempotent ==
  /\ \A batch \in BatchSamples, contractId \in ContractIdSamples, network \in Networks :
       LET once == StoreEventsResult(contractTable, eventTable, batch,
                                     contractId, network)
           twice == StoreEventsResult(contractTable, once.table, batch,
                                      contractId, network)
       IN  ~once.threw =>
             /\ ~twice.threw
             /\ twice.count = 0
             /\ twice.table = once.table
             /\ Cardinality(twice.table) = Cardinality(once.table)
  /\ (last.op = "storeEvents" /\ last.repeated /\ ~last.threw) => last.count = 0

C4_Witness ==
  /\ last.op = "storeEvents"
  /\ last.repeated
  /\ ~last.threw
  /\ last.count = 0
  /\ Cardinality(eventTable) = 2

\* C6: no DatabaseService operation deletes an Event row or changes a field
\* of one: every stored row is still there, unchanged, after every step, and
\* no second row takes the (transactionHash, logIndex) of a stored one.
C6_EventTableAppendOnly ==
  [][ /\ \A row \in eventTable : row \in eventTable'
      /\ \A new \in eventTable' : \A row \in eventTable :
           SameEventKey(new, row) => new = row ]_vars

\* storeEvents met a stored key with other fields, and returned
C6_Witness ==
  /\ last.op = "storeEvents"
  /\ last.clobber
  /\ ~last.threw
  /\ \E r1 \in eventTable : r1.blockNumber = 5 /\ r1.eventName = "Transfer"

\* C8 as stated: every stored Contract address is lowercase and no two
\* Contract rows have addresses equal ignoring letter case.
C8_ContractAddressesLowercased ==
  /\ \A c \in contractTable : c.address = ToLowerCase(c.address)
  /\ \A c1, c2 \in contractTable :
       ToLowerCase(c1.address) = ToLowerCase(c2.address) => c1 = c2

(***************************************************************************)
(* Properties of the read side (checked under SpecQuery).                  *)
(***************************************************************************)
\* C9 as stated: getEvents, getEventsByContract, getEventsSmartRange and
\* getContract answer an address in mixed case as they answer its lowercased
\* form: the same rows, the same count, the same contract found.
C9_QueriesIgnoreAddressCase ==
  /\ qres.op \in {"getEvents", "getEventsByContract", "getEventsSmartRange"} =>
       LET lower == ResultRows(qres.op, eventTable,
                               QueryArgs(ToLowerCase(qres.address), qres.network,
                                         qres.eventName, qres.fromBlock,
                                         qres.toBlock, qres.page, qres.limit,
                                         qres.head))
       IN  /\ Range(qres.events) \subseteq lower
           /\ qres.totalCount = Cardinality(lower)
  /\ qres.op = "getContract" =>
       qres.found = (FindContract(contractTable, ToLowerCase(qres.address),
                                  qres.network) # {})

\* the stored events of the selector of the last getEventsSmartRange request
SelectorRows ==
  {row \in eventTable :
     /\ row.contractAddress = qres.address
     /\ row.network = qres.network
     /\ qres.eventName # "" => row.eventName = qres.eventName}

\* the chain-head fetch of the last request fails: an RPC error, or a
\* network getNetworkConfig does not know
HeadFetchFails == qres.head.kind # "number" \/ qres.network \notin {"sepolia", "mainnet"}

\* C12: when at least one event is stored for the selector,
\* getEventsSmartRange returns toBlock and latestEventBlock equal to the
\* largest stored block height of the selector and isOptimalRange = true,
\* and does not fetch the chain head.
C12_SmartRangeEndsAtLatestEvent ==
  (qres.op = "getEventsSmartRange" /\ SelectorRows # {}) =>
    /\ \A row \in SelectorRows : row.blockNumber <= qres.rangeInfo.toBlock
    /\ \E row \in SelectorRows : row.blockNumber = qres.rangeInfo.toBlock
    /\ qres.rangeInfo.latestEventBlock = NumText(qres.rangeInfo.toBlock)
    /\ qres.rangeInfo.isOptimalRange
    /\ ~qres.headFetched

\* the selector has events at two heights, the chain head is far above them
C12_Witness ==
  /\ qres.op = "getEventsSmartRange"
  /\ \E r1, r2 \in SelectorRows : r1.blockNumber < r2.blockNumber
  /\ qres.head = NumText(6701000)
  /\ qres.rangeInfo.toBlock = 2004

\* C13: when no event is stored for the selector and the chain head is
\* fetched, getEventsSmartRange has fetched it for this request and returns
\* isOptimalRange = false, latestEventBlock = null and toBlock = that head.
C13_ColdStartEndsAtChainHead ==
  (qres.op = "getEventsSmartRange" /\ SelectorRows = {} /\ ~HeadFetchFails) =>
    /\ qres.headFetched
    /\ ~qres.rangeInfo.isOptimalRange
    /\ qres.rangeInfo.latestEventBlock = Undefined
    /\ qres.rangeInfo.toBlock = qres.head.value

\* a selector without events on a store that holds events of another one
C13_Witness ==
  /\ qres.op = "getEventsSmartRange"
  /\ SelectorRows = {}
  /\ eventTable # {}
  /\ qres.head = NumText(1000)
  /\ qres.network = "sepolia"
  /\ qres.rangeInfo.toBlock = 1000
  /\ qres.rangeInfo.fromBlock = 1

\* C14: when no event is stored for the selector and the chain-head fetch
\* fails (RPC error or unsupported network), getEventsSmartRange still
\* answers: the window ends at 23,000,000, isOptimalRange = false, and the
\* message of the result says the latest block could not be fetched.
C14_HeadFetchFailureFallsBack ==
  (qres.op = "getEventsSmartRange" /\ SelectorRows = {} /\ HeadFetchFails) =>
    /\ qres.headFetched
    /\ qres.rangeInfo.toBlock = 23000000
    /\ qres.rangeInfo.fromBlock = 22999001
    /\ ~qres.rangeInfo.isOptimalRange
    /\ qres.rangeInfo.latestEventBlock = Undefined
    /\ qres.rangeInfo.message = "Unable to fetch latest block"
    /\ qres.totalCount = 0
    /\ qres.events = <<>>

\* an unsupported network whose RPC would have answered
C14_Witness ==
  /\ qres.op = "getEventsSmartRange"
  /\ qres.network = "goerli"
  /\ qres.head = NumText(1000)
  /\ eventTable # {}
  /\ qres.rangeInfo.toBlock = 23000000

\* C15: in every branch of getEventsSmartRange the window is
\* fromBlock = max(0, toBlock - 999), so 0 <= fromBlock <= toBlock and it
\* holds 1000 blocks when toBlock >= 999 and toBlock + 1 otherwise; every
\* returned event matches the selector and lies in the window, and
\* rangeInfo.totalEventsInRange equals totalCount, the number of stored
\* events of the selector in the window.
C15_SmartRangeWindow ==
  qres.op = "getEventsSmartRange" =>
    LET from == qres.rangeInfo.fromBlock
        to == qres.rangeInfo.toBlock
    IN  /\ 0 <= from
        /\ from <= to
        /\ from = IF to - 999 > 0 THEN to - 999 ELSE 0
        /\ to - from + 1 = IF to >= 999 THEN 1000 ELSE to + 1
        /\ \A i \in 1..Len(qres.events) :
             /\ qres.events[i] \in SelectorRows
             /\ from <= qres.events[i].blockNumber
             /\ qres.events[i].blockNumber <= to
        /\ qres.rangeInfo.totalEventsInRange = qres.totalCount
        /\ qres.totalCount =
             Cardinality({row \in SelectorRows :
                            from <= row.blockNumber /\ row.blockNumber <= to})

\* a window cut at block 0 that leaves none of the selector's events out
\* is no test of the window: here the selector has an event below the window
C15_Witness ==
  /\ qres.op = "getEventsSmartRange"
  /\ qres.rangeInfo.toBlock = 2004
  /\ qres.rangeInfo.fromBlock = 1005
  /\ \E row \in SelectorRows : row.blockNumber < 1005
  /\ Len(qres.events) = 3

\* the resolvers that answer with pagination fields
PagedOps == {"getEvents", "getEventsByContract", "getEventsSmartRange"}

\* C16: for page >= 1, limit L >= 1 and matching count N, the resolvers
\* answer totalPages = ceil(N / L), hasNextPage = (page < totalPages),
\* hasPreviousPage = (page > 1) and at most L events (those left after the
\* earlier pages); page totalPages + 1 holds no events and has no next page.
C16_PaginationLaw ==
  (qres.op \in PagedOps /\ qres.page >= 1 /\ qres.limit >= 1) =>
    LET N == Cardinality(ResultRows(qres.op, eventTable,
                           QueryArgs(qres.address, qres.network, qres.eventName,
                                     qres.fromBlock, qres.toBlock, qres.page,
                                     qres.limit, qres.head)))
        L == qres.limit
        left == N - (qres.page - 1) * L
    IN  /\ qres.totalCount = N
        /\ qres.totalPages * L >= N
        /\ (qres.totalPages - 1) * L < N \/ (N = 0 /\ qres.totalPages = 0)
        /\ qres.totalPages >= 0
        /\ qres.currentPage = qres.page
        /\ qres.hasNextPage = (qres.page < qres.totalPages)
        /\ qres.hasPreviousPage = (qres.page > 1)
        /\ Len(qres.events) <= L
        /\ Len(qres.events) = IF left <= 0 THEN 0 ELSE IF left < L THEN left ELSE L
        /\ qres.page = qres.totalPages + 1 =>
             qres.events = <<>> /\ ~qres.hasNextPage

\* the page after the last of two pages, one event short of full
C16_Witness ==
  /\ qres.op \in PagedOps
  /\ qres.limit = 2
  /\ qres.totalCount = 3
  /\ qres.totalPages = 2
  /\ qres.page = 3
  /\ qres.events = <<>>

\* C17 as stated: every event getEventsWithPagination (getEvents),
\* DatabaseService.getEventsByContract and searchEvents return satisfies every
\* supplied filter, a block bound of 0 included, and totalCount is the number
\* of stored events that satisfy all supplied filters.
C17_FiltersAndCombined ==
  qres.op \in {"getEvents", "DatabaseService_getEventsByContract", "searchEvents"} =>
    LET ok(row) ==
          /\ qres.address # <<>> => row.contractAddress = qres.address
          /\ qres.network # "" => row.network = qres.network
          /\ qres.eventName # "" => row.eventName = qres.eventName
          /\ qres.fromBlock.kind = "number" => row.blockNumber >= qres.fromBlock.value
          /\ qres.toBlock.kind = "number" => row.blockNumber <= qres.toBlock.value
    IN  /\ \A i \in 1..Len(qres.events) : ok(qres.events[i])
        /\ qres.totalCount = Cardinality({row \in eventTable : ok(row)})

\* C18: the pages getEvents, getEventsByContract and getEventsSmartRange
\* return hold block heights in non-increasing order, and on an unchanged
\* store every event of page p is at least as high as every event of page
\* p + 1 of the same query.
C18_MostRecentFirst ==
  [][/\ qres'.op \in PagedOps =>
          \A i, j \in 1..Len(qres'.events) :
            i < j => qres'.events[i].blockNumber >= qres'.events[j].blockNumber
     /\ (qres # NoQuery /\ qres'.op \in PagedOps) =>
          /\ qres'.op = qres.op
          /\ qres'.page = qres.page + 1
          /\ qres'.limit = qres.limit
          /\ \A i \in 1..Len(qres.events), j \in 1..Len(qres'.events) :
               qres.events[i].blockNumber >= qres'.events[j].blockNumber]_vars

\* a second page of two events at different heights
C18_Witness ==
  /\ qres.op \in PagedOps
  /\ qres.page = 2
  /\ qres.limit = 2
  /\ Len(qres.events) = 2
  /\ qres.events[1].blockNumber > qres.events[2].blockNumber

\* C29 as stated: on an unchanged store, with fixed filters and limit
\* L >= 1, the pages 1..totalPages of getEvents hold every matching event
\* exactly once: no event of page p is on page p + 1, and two pages that
\* make up the whole result hold together every matching event, also when
\* events of one block height straddle the page boundary.
C29_PagesHoldEachEventOnce ==
  [][(/\ qres # NoQuery
      /\ qres'.op = "getEvents"
      /\ qres'.page = qres.page + 1
      /\ qres.page >= 1
      /\ qres.limit >= 1) =>
       /\ Range(qres.events) \cap Range(qres'.events) = {}
       /\ (qres.page = 1 /\ qres.totalPages = 2) =>
            Range(qres.events) \cup Range(qres'.events) =
              ResultRows("getEvents", eventTable,
                         QueryArgs(qres.address, qres.network, qres.eventName,
                                   qres.fromBlock, qres.toBlock, qres.page,
                                   qres.limit, qres.head))]_vars

\* C30: in every result of getEventsSmartRange, isOptimalRange is true if and
\* only if latestEventBlock is non-null; when true, totalEventsInRange >= 1
\* and the first event of the page at offset 0 has blockNumber = toBlock =
\* latestEventBlock; when false, the events list is empty and
\* totalEventsInRange = 0.
C30_OptimalRangeIffEventsStored ==
  qres.op = "getEventsSmartRange" =>
    LET info == qres.rangeInfo
    IN  /\ info.isOptimalRange <=> info.latestEventBlock # Undefined
        /\ info.totalEventsInRange = qres.totalCount
        /\ info.isOptimalRange =>
             /\ info.totalEventsInRange >= 1
             /\ info.latestEventBlock = NumText(info.toBlock)
             /\ OffsetOf(QueryArgs(qres.address, qres.network, qres.eventName,
                                   qres.fromBlock, qres.toBlock, qres.page,
                                   qres.limit, qres.head)) = 0 =>
                  /\ Len(qres.events) >= 1
                  /\ qres.events[1].blockNumber = info.toBlock
        /\ ~info.isOptimalRange =>
             /\ qres.events = <<>>
             /\ info.totalEventsInRange = 0

\* both cases: a selector with events, first page; a selector without
C30_Witness ==
  /\ qres.op = "getEventsSmartRange"
  /\ qres.rangeInfo.isOptimalRange
  /\ qres.page = 1
  /\ qres.eventName = "Transfer"
  /\ Len(qres.events) >= 1
  /\ qres.rangeInfo.totalEventsInRange >= 2
  /\ \E row \in eventTable :
       /\ row.contractAddress = qres.address
       /\ row.network = qres.network
       /\ row.eventName # "Transfer"

(***************************************************************************)
(* Properties of the IndexingStatus table (checked under SpecStatus).      *)
(***************************************************************************)
\* C10 as stated: the checkpoint of a (contractAddress, network) pair is the
\* largest height ever passed to updateIndexingStatus for that pair.
C10_CheckpointIsMaximumPassed ==
  \A row \in statusTable :
    row.lastIndexedBlock = maxPassed[<<row.contractAddress, row.network>>]

\* the IndexingStatus rows of one (contractAddress, network) pair
StatusRowsOf(table, pair) ==
  {row \in table : row.contractAddress = pair[1] /\ row.network = pair[2]}

\* C11: every updateIndexingStatus call leaves exactly one IndexingStatus
\* row per (contractAddress, network) pair ever updated and none for the
\* other pairs; the first call for a pair creates its row, a later call
\* updates that same row (same id); the row of the call has errorCount = 0
\* and lastError = null afterwards, and the rows of other pairs are unchanged.
C11_OneStatusRowPerPair ==
  [][\E pair \in StatusPairs :
       /\ maxPassed'[pair] > 0
       /\ \A other \in StatusPairs \ {pair} :
            StatusRowsOf(statusTable', other) = StatusRowsOf(statusTable, other)
       /\ \A q \in StatusPairs :
            Cardinality(StatusRowsOf(statusTable', q)) =
              IF maxPassed'[q] > 0 THEN 1 ELSE 0
       /\ \A new \in StatusRowsOf(statusTable', pair) :
            /\ new.errorCount = 0
            /\ new.lastError = ""
            /\ \A old \in StatusRowsOf(statusTable, pair) : new.id = old.id
       /\ maxPassed[pair] = 0 => StatusRowsOf(statusTable, pair) = {}]_vars

\* two pairs have a row, and one of them was updated after it was created
\* (its height is below the largest one passed for it)
C11_Witness ==
  /\ Cardinality(statusTable) = 2
  /\ \E row \in statusTable :
       row.lastIndexedBlock < maxPassed[<<row.contractAddress, row.network>>]

(***************************************************************************)
(* Properties of concurrent storeEvents calls (checked under SpecConc).    *)
(***************************************************************************)
RECURSIVE SumCounts(_)
SumCounts(ids) ==
  IF ids = {} THEN 0
  ELSE LET c == CHOOSE x \in ids : TRUE
       IN  calls[c].count + SumCounts(ids \ {c})

\* the (transactionHash, logIndex) pairs of the records handed to createMany
KeysOf(records) ==
  {<<records[i].transactionHash, records[i].logIndex>> : i \in 1..Len(records)}

StoredKeys == {<<row.transactionHash, row.logIndex>> : row \in eventTable}

\* C5: in every interleaving of concurrent storeEvents calls with
\* overlapping batches, no call fails, the table holds one row per distinct
\* (transactionHash, logIndex), the inserted-row counts add up to the number
\* of rows stored, and once every call has returned the stored keys are
\* exactly the distinct keys of the batches.
C5_ConcurrentStoreEventsSafe ==
  /\ \A c \in CallIds : calls[c].pc # "failed"
  /\ \A r1, r2 \in eventTable :
       (r1.transactionHash = r2.transactionHash /\ r1.logIndex = r2.logIndex)
         => r1 = r2
  /\ SumCounts(CallIds) = Cardinality(eventTable)
  /\ (\A c \in CallIds : calls[c].pc = "returned") =>
       /\ StoredKeys = UNION {KeysOf(calls[c].records) : c \in CallIds}
       /\ SumCounts(CallIds) = Cardinality(StoredKeys)

\* two calls with the same two keys, each of which inserted one row and
\* skipped the other
C5_Witness ==
  /\ \A c \in CallIds : calls[c].pc = "returned"
  /\ KeysOf(calls[1].records) = KeysOf(calls[2].records)
  /\ calls[1].count = 1
  /\ calls[2].count = 1
  /\ Cardinality(eventTable) = 2

====
